---- MODULE Spec2Model ----
(***************************************************************************)
(* simdjson dom::document_stream and its stage1_worker                     *)
(* (include/simdjson/inline/document_stream.h).                            *)
(*                                                                         *)
(* One stream iterates over one buffer.  The caller thread runs begin(),   *)
(* operator*, operator++ and finally the destructor; with                  *)
(* SIMDJSON_THREADS_ENABLED a worker thread runs phase 1 of the next batch *)
(* on the secondary parser (stage1_thread_parser).  Offsets are 0-based    *)
(* byte offsets into the buffer.                                           *)
(***************************************************************************)
EXTENDS Integers, Sequences, FiniteSets, TLC

\* Longest buffer and largest batch size that Init draws.
MaxLen == 5
MaxBatch == 3
\* Longest buffer of the streams whose shutdown is followed to its end.
StopLen == 3
\* Jobs each of two concurrent streams gives to its worker.
MaxJobs == 2

VARIABLES
  buf,                 \* document_stream::buf, one letter per byte
  batch_size,          \* document_stream::batch_size
  threaded,            \* TRUE: built with SIMDJSON_THREADS_ENABLED
  error,               \* document_stream::error
  batch_start,         \* document_stream::batch_start
  holder,              \* P: the parser of the stream, S: stage1_thread_parser
  stage1_thread_error, \* document_stream::stage1_thread_error
  has_work,            \* stage1_worker::has_work
  can_work,            \* stage1_worker::can_work
  job,                 \* stage1_worker::_next_batch_start, stage1_thread_parser
  wpc,                 \* where the worker thread is
  cpc,                 \* where the caller thread is
  op,                  \* the operation the caller is in; "deref", "again":
                       \* operator* ran last, once or more than once
  ret,                 \* who called start_stage1_thread: start() or load
  finished,            \* iterator::finished of the iterator begin() returned
  result,              \* what the last operator* returned
  observed,            \* no job run() was given is still unseen by finish()
  proto,               \* position of the caller in the iteration protocol
  yielded,             \* results of operator* while the protocol is followed
  stopFrom,            \* where the worker was when the destructor started
  pair,                \* two streams of one process: for each, the fields of
                       \* its stage1_worker and where its two threads are
  loose                \* a stream over a phase 1 bound by its contract only:
                       \* its fields and where its caller is

vars == <<buf, batch_size, threaded, error, batch_start, holder,
          stage1_thread_error, has_work, can_work, job, wpc, cpc, op, ret,
          finished, result, observed, proto, yielded, stopFrom, pair,
          loose>>

streamVars == <<error, batch_start, holder, stage1_thread_error>>
workerVars == <<has_work, can_work, job, wpc>>
configVars == <<buf, batch_size, threaded>>
ghostVars  == <<observed, proto, yielded, stopFrom>>
oneVars    == <<configVars, streamVars, workerVars, cpc, op, ret, finished,
               result, ghostVars>>

(***************************************************************************)
(* The buffer.  A byte is the first byte of a well-formed document ("s"),  *)
(* the first byte of a document phase 2 rejects ("t"), a further byte of   *)
(* the document before it ("c"), white space ("w") or a byte phase 1       *)
(* rejects ("x").                                                          *)
(***************************************************************************)
Bytes == {"s", "t", "c", "w", "x"}

IsBuffer(b) ==
  \A i \in 1..Len(b) : b[i] = "c" => (i > 1 /\ b[i-1] \in {"s", "t", "c"})

Buffers ==
  {b \in UNION {[1..n -> Bytes] : n \in 0..MaxLen} : IsBuffer(b)}

len == Len(buf)

ByteAt(k) == buf[k + 1]

\* The offset one past the last byte of the document that starts at k.
DocEnd(k) ==
  CHOOSE j \in (k+1)..len :
    /\ \A i \in (k+1)..(j-1) : ByteAt(i) = "c"
    /\ (j = len \/ ByteAt(j) # "c")

SetMin(S) == CHOOSE x \in S : \A y \in S : x <= y

RECURSIVE Ascending(_)
Ascending(S) ==
  IF S = {} THEN <<>> ELSE <<SetMin(S)>> \o Ascending(S \ {SetMin(S)})

(***************************************************************************)
(* Phase 1 (implementation->stage1) over the bytes [off, off+n): the       *)
(* status, the documents indexed (by start offset) and                     *)
(* structural_indexes[n_structural_indexes], the bytes consumed.           *)
(***************************************************************************)
stage1(off, n, partial) ==
  LET window   == {k \in off..(off + n - 1) : k < len}
      starts   == {k \in window : ByteAt(k) \in {"s", "t"}}
      complete == {k \in starts : DocEnd(k) <= off + n}
      cut      == starts \ complete
  IN  IF \E k \in window : ByteAt(k) = "x"
      THEN [status |-> "UTF8_ERROR", docs |-> <<>>, consumed |-> 0]
      ELSE IF starts = {}
      THEN [status |-> "EMPTY", docs |-> <<>>, consumed |-> n]
      ELSE IF ~partial
      THEN [status |-> "SUCCESS", docs |-> Ascending(starts), consumed |-> n]
      ELSE IF complete = {}
      THEN [status |-> "CAPACITY", docs |-> <<>>, consumed |-> 0]
      ELSE [status |-> "SUCCESS", docs |-> Ascending(complete),
            consumed |-> IF cut = {} THEN n ELSE SetMin(cut) - off]

\* len - _batch_start in size_t: a start beyond len wraps to a huge count.
Remaining(s) == IF s <= len THEN len - s ELSE MaxLen + MaxBatch + 1

\* Mutant: a remainder of exactly batch_size bytes is not the final batch.
Stage1CallStrict(s) ==
  IF Remaining(s) < batch_size
  THEN [off |-> s, n |-> Remaining(s), partial |-> FALSE]
  ELSE [off |-> s, n |-> batch_size, partial |-> TRUE]

\* run_stage1, lines 172-177: the bytes and the mode it hands to phase 1.
Stage1Call(s) ==
  IF Remaining(s) <= batch_size
  THEN [off |-> s, n |-> Remaining(s), partial |-> FALSE]
  ELSE [off |-> s, n |-> batch_size, partial |-> TRUE]

run_stage1(s) ==
  LET call == Stage1Call(s)
  IN  stage1(call.off, call.n, call.partial)

(***************************************************************************)
(* A parser holder: off is the batch offset its structural index was built *)
(* for (-1: none yet), nxt the next document of the index phase 2 will     *)
(* build, doc the document in parser.doc (-1: none).                       *)
(***************************************************************************)
NoParser == [off |-> -1, nxt |-> 0, doc |-> -1]

Index(h) ==
  IF h.off < 0 THEN [status |-> "EMPTY", docs |-> <<>>, consumed |-> 0]
  ELSE run_stage1(h.off)

Indexed(h, s) == [off |-> s, nxt |-> 0, doc |-> h.doc]

\* implementation->stage2_next(parser.doc): the status and the holder after.
stage2_next(h) ==
  LET docs == Index(h).docs
  IN  IF h.nxt >= Len(docs)
      THEN [status |-> "EMPTY", h |-> h]
      ELSE IF ByteAt(docs[h.nxt + 1]) = "t"
      THEN [status |-> "TAPE_ERROR", h |-> [h EXCEPT !.nxt = @ + 1, !.doc = -1]]
      ELSE [status |-> "SUCCESS",
            h |-> [h EXCEPT !.nxt = @ + 1, !.doc = docs[h.nxt + 1]]]

\* Mutant: the bytes consumed are left out of the next batch's start.
next_batch_start_same(bs, h) == bs

next_batch_start(bs, h) == bs + Index(h).consumed


\* simdjson_result<element>: the error, or the root of a document.
NoResult == [error |-> "none", doc |-> -1]
Failure(e) == [error |-> e, doc |-> -1]
Element(d) == [error |-> "SUCCESS", doc |-> d]

\* The streams of a process that iterates two, each on its own thread.
Streams == {1, 2}

\* A stage1_worker after construction, and the caller of its stream.
NoWorker ==
  [has_work |-> FALSE, can_work |-> TRUE, job |-> 0,
   stage1_thread_error |-> "UNINITIALIZED", wpc |-> "none", cpc |-> "idle"]

\* An index no phase 1 has built yet, for a phase 1 known by its contract.
NoIndex == [status |-> "EMPTY", consumed |-> 0, docs |-> 0]

\* The stream over such a phase 1, after construction, when begin() is called.
NoLoose ==
  [pc |-> "start", error |-> "SUCCESS", batch_start |-> 0, P |-> NoIndex,
   S |-> NoIndex, stage1_thread_error |-> "UNINITIALIZED", ret |-> "start",
   head |-> -1]

(***************************************************************************)
(* Construction: document_stream(parser, buf, len, batch_size, SUCCESS);   *)
(* the worker's thread is not started and the iterator does not exist yet. *)
(***************************************************************************)
Init ==
  /\ buf \in Buffers
  /\ batch_size \in 1..MaxBatch
  /\ threaded \in BOOLEAN
  /\ error = "SUCCESS"
  /\ batch_start = 0
  /\ holder = [P |-> NoParser, S |-> NoParser]
  /\ stage1_thread_error = "UNINITIALIZED"
  /\ has_work = FALSE
  /\ can_work = TRUE
  /\ job = [off |-> 0, parser |-> "S"]
  /\ wpc = "none"
  /\ cpc = "idle"
  /\ op = "none"
  /\ ret = "start"
  /\ finished = TRUE
  /\ result = NoResult
  /\ observed = TRUE
  /\ proto = "begin"
  /\ yielded = <<>>
  /\ stopFrom = "none"
  /\ pair = [i \in Streams |-> NoWorker]
  /\ loose = NoLoose

(***************************************************************************)
(* The iteration protocol: it = begin(); while (it != end()) { *it; ++it } *)
(* proto is the call the protocol asks for next ("end": the loop is over), *)
(* or "broken" once the caller has made another call.                      *)
(***************************************************************************)
Follows(call) == proto = call

\* proto after begin() or operator++ returned with finished = f.
AfterAdvance(f) ==
  IF proto = "broken" THEN "broken" ELSE IF f THEN "end" ELSE "deref"

(***************************************************************************)
(* Return of start() or next() to begin() (line 93) or operator++ (line    *)
(* 113) with the stream's error e.                                         *)
(***************************************************************************)
Return(e) ==
  LET f == IF op = "begin" THEN e = "EMPTY" ELSE (finished \/ e = "EMPTY")
  IN  /\ cpc' = "idle"
      /\ op' = "none"
      /\ finished' = f
      /\ proto' = AfterAdvance(f)


(***************************************************************************)
(* The caller thread: the public operations.                               *)
(***************************************************************************)

\* begin() is called: line 91.
CallBegin ==
  /\ cpc = "idle"
  /\ cpc' = "start"
  /\ op' = "begin"
  /\ result' = NoResult
  /\ proto' = IF Follows("begin") THEN proto ELSE "broken"
  /\ yielded' = IF Follows("begin") THEN yielded ELSE <<>>
  /\ UNCHANGED <<pair, loose, configVars, streamVars, workerVars, ret, finished,
                 observed, stopFrom>>

\* operator++ is called: line 111.
CallAdvance ==
  /\ cpc = "idle"
  /\ proto # "begin"
  /\ cpc' = "next"
  /\ op' = "advance"
  /\ result' = NoResult
  /\ proto' = IF Follows("advance") THEN proto ELSE "broken"
  /\ yielded' = IF Follows("advance") THEN yielded ELSE <<>>
  /\ UNCHANGED <<pair, loose, configVars, streamVars, workerVars, ret, finished,
                 observed, stopFrom>>

\* Mutant: operator* that does not mark the iterator finished on an error.
DerefNotFinished ==
  /\ cpc = "idle"
  /\ proto # "begin"
  /\ result' = IF error # "SUCCESS" THEN Failure(error)
                ELSE Element(holder.P.doc)
  /\ op' = IF op \in {"deref", "again"} THEN "again" ELSE "deref"
  /\ proto' = IF Follows("deref") THEN "advance" ELSE "broken"
  /\ yielded' = IF Follows("deref") THEN Append(yielded, result') ELSE <<>>
  /\ UNCHANGED <<pair, loose, configVars, streamVars, workerVars, cpc, ret, finished,
                 observed, stopFrom>>

\* Mutant: operator* that builds the next document each time it is called.
DerefBuilds ==
  /\ cpc = "idle"
  /\ proto # "begin"
  /\ LET r == stage2_next(holder.P)
     IN  /\ holder' = [holder EXCEPT !.P = r.h]
         /\ result' = IF error # "SUCCESS" THEN Failure(error)
                       ELSE IF r.status # "SUCCESS" THEN Failure(r.status)
                       ELSE Element(r.h.doc)
  /\ finished' = IF error # "SUCCESS" THEN TRUE ELSE finished
  /\ op' = IF op \in {"deref", "again"} THEN "again" ELSE "deref"
  /\ proto' = IF Follows("deref") THEN "advance" ELSE "broken"
  /\ yielded' = IF Follows("deref") THEN Append(yielded, result') ELSE <<>>
  /\ UNCHANGED <<pair, loose, configVars, error, batch_start, stage1_thread_error,
                 workerVars, cpc, ret, observed, stopFrom>>

\* operator*, lines 104-108.
Deref ==
  /\ cpc = "idle"
  /\ proto # "begin"
  /\ result' = IF error # "SUCCESS" THEN Failure(error)
                ELSE Element(holder.P.doc)
  /\ finished' = IF error # "SUCCESS" THEN TRUE ELSE finished
  /\ op' = IF op \in {"deref", "again"} THEN "again" ELSE "deref"
  /\ proto' = IF Follows("deref") THEN "advance" ELSE "broken"
  /\ yielded' = IF Follows("deref") THEN Append(yielded, result') ELSE <<>>
  /\ UNCHANGED <<pair, loose, configVars, streamVars, workerVars, cpc, ret,
                 observed, stopFrom>>

\* Mutant: start() without the test of error at line 122.
StartUnguarded ==
  /\ cpc = "start"
  /\ LET r == run_stage1(0)
         p == Indexed(holder.P, 0)
     IN  /\ batch_start' = 0
         /\ holder' = [holder EXCEPT !.P = p]
         /\ error' = r.status
         /\ UNCHANGED stage1_thread_error
         /\ IF r.status # "SUCCESS"
            THEN Return(r.status) /\ UNCHANGED ret
            ELSE /\ IF threaded /\ next_batch_start(0, p) < len
                    THEN cpc' = "ensure" /\ ret' = "start"
                    ELSE cpc' = "next" /\ UNCHANGED ret
                 /\ UNCHANGED <<op, finished, proto>>
  /\ UNCHANGED <<pair, loose, configVars, workerVars, result, observed, yielded, stopFrom>>

(***************************************************************************)
(* start(), lines 121-133 and 142: the first batch, on the caller thread.  *)
(* ensure_capacity succeeds.                                               *)
(***************************************************************************)
Start ==
  /\ cpc = "start"
  /\ IF error # "SUCCESS"
     THEN /\ Return(error)
          /\ UNCHANGED <<streamVars, ret>>
     ELSE LET r == run_stage1(0)
              p == Indexed(holder.P, 0)
          IN  /\ batch_start' = 0
              /\ holder' = [holder EXCEPT !.P = p]
              /\ error' = r.status
              /\ UNCHANGED stage1_thread_error
              /\ IF r.status # "SUCCESS"
                 THEN Return(r.status) /\ UNCHANGED ret
                 ELSE /\ IF threaded /\ next_batch_start(0, p) < len
                         THEN cpc' = "ensure" /\ ret' = "start"
                         ELSE cpc' = "next" /\ UNCHANGED ret
                      /\ UNCHANGED <<op, finished, proto>>
  /\ UNCHANGED <<pair, loose, configVars, workerVars, result, observed, yielded, stopFrom>>

\* stage1_thread_parser.ensure_capacity(batch_size), lines 135-136.
EnsureSecondary ==
  /\ cpc = "ensure"
  /\ cpc' = "sst"
  /\ UNCHANGED <<pair, loose, configVars, streamVars, workerVars, op, ret, finished,
                 result, ghostVars>>

(***************************************************************************)
(* start_stage1_thread(), lines 201-202, and the head of run(), lines      *)
(* 59-61: the thread is started when it is not joinable.                   *)
(***************************************************************************)
StartStage1Thread ==
  /\ cpc = "sst"
  /\ stage1_thread_error' = "UNINITIALIZED"
  /\ wpc' = IF wpc = "none" THEN "top" ELSE wpc
  /\ cpc' = "run"
  /\ UNCHANGED <<pair, loose, configVars, error, batch_start, holder, has_work, can_work,
                 job, op, ret, finished, result, ghostVars>>

\* run(), lines 62-67, under the mutex m the worker holds during phase 1.
Run ==
  /\ cpc = "run"
  /\ wpc # "stage1"
  /\ job' = [off |-> next_batch_start(batch_start, holder.P), parser |-> "S"]
  /\ has_work' = TRUE
  /\ observed' = FALSE
  /\ cpc' = "run_notify"
  /\ UNCHANGED <<pair, loose, configVars, streamVars, can_work, wpc, op, ret, finished,
                 result, proto, yielded, stopFrom>>

(***************************************************************************)
(* run(), line 68: cv.notify_one wakes the worker when it waits; control   *)
(* returns to start() (lines 138, 142) or to next() (lines 160, 162).      *)
(***************************************************************************)
RunNotify ==
  /\ cpc = "run_notify"
  /\ wpc' = IF wpc = "wait" THEN "lock" ELSE wpc
  /\ cpc' = IF ret = "start" THEN "next" ELSE "stage2"
  /\ ret' = "start"
  /\ UNCHANGED <<pair, loose, configVars, streamVars, has_work, can_work, job, op,
                 finished, result, ghostVars>>

\* next(), lines 146-149.
Next1 ==
  /\ cpc = "next"
  /\ IF error # "SUCCESS"
     THEN Return(error) /\ UNCHANGED streamVars
     ELSE LET r == stage2_next(holder.P)
          IN  /\ error' = r.status
              /\ holder' = [holder EXCEPT !.P = r.h]
              /\ cpc' = "loop"
              /\ UNCHANGED <<batch_start, stage1_thread_error, op, finished,
                             proto>>
  /\ UNCHANGED <<pair, loose, configVars, workerVars, ret, result, observed, yielded,
                 stopFrom>>

(***************************************************************************)
(* next(), the head of the loop, lines 151-153, and without threads the    *)
(* synchronous run_stage1 of lines 158-160.                                *)
(***************************************************************************)
Loop ==
  /\ cpc = "loop"
  /\ IF error # "EMPTY"
     THEN Return(error) /\ UNCHANGED streamVars
     ELSE LET s == next_batch_start(batch_start, holder.P)
          IN  /\ batch_start' = s
              /\ UNCHANGED stage1_thread_error
              /\ IF s >= len
                 THEN Return(error) /\ UNCHANGED <<error, holder>>
                 ELSE IF threaded
                 THEN /\ cpc' = "finish"
                      /\ UNCHANGED <<error, holder, op, finished, proto>>
                 ELSE /\ error' = run_stage1(s).status
                      /\ holder' = [holder EXCEPT !.P = Indexed(@, s)]
                      /\ cpc' = IF error' # "SUCCESS" THEN "loop" ELSE "stage2"
                      /\ UNCHANGED <<op, finished, proto>>
  /\ UNCHANGED <<pair, loose, configVars, workerVars, ret, result, observed, yielded,
                 stopFrom>>

\* next(), line 162.
Stage2 ==
  /\ cpc = "stage2"
  /\ LET r == stage2_next(holder.P)
     IN  /\ error' = r.status
         /\ holder' = [holder EXCEPT !.P = r.h]
  /\ cpc' = "loop"
  /\ UNCHANGED <<pair, loose, configVars, batch_start, stage1_thread_error, workerVars,
                 op, ret, finished, result, ghostVars>>

\* Mutant: finish() that returns without waiting for has_work to clear.
FinishNoWait ==
  /\ cpc = "finish"
  /\ wpc # "stage1"
  /\ cpc' = "swap"
  /\ observed' = TRUE
  /\ UNCHANGED <<pair, loose, configVars, streamVars, workerVars, op, ret, finished,
                 result, proto, yielded, stopFrom>>

(***************************************************************************)
(* finish(), lines 19-20: with the mutex, return when has_work is false,   *)
(* otherwise release the mutex and wait on cv.                             *)
(***************************************************************************)
Finish ==
  /\ cpc = "finish"
  /\ wpc # "stage1"
  /\ cpc' = IF has_work THEN "finish_wait" ELSE "swap"
  /\ observed' = IF has_work THEN observed ELSE TRUE
  /\ UNCHANGED <<pair, loose, configVars, streamVars, workerVars, op, ret, finished,
                 result, proto, yielded, stopFrom>>

\* Mutant: load_from_stage1_thread() without the test of line 191.
SwapAlwaysSubmits ==
  /\ cpc = "swap"
  /\ holder' = [P |-> holder.S, S |-> holder.P]
  /\ error' = stage1_thread_error
  /\ IF error' # "SUCCESS"
     THEN cpc' = "loop" /\ UNCHANGED ret
     ELSE cpc' = "sst" /\ ret' = "load"
  /\ UNCHANGED <<pair, loose, configVars, batch_start, stage1_thread_error,
                 workerVars, op, finished, result, ghostVars>>

\* load_from_stage1_thread(), lines 186-193.
Swap ==
  /\ cpc = "swap"
  /\ holder' = [P |-> holder.S, S |-> holder.P]
  /\ error' = stage1_thread_error
  /\ IF error' # "SUCCESS"
     THEN cpc' = "loop" /\ UNCHANGED ret
     ELSE IF next_batch_start(batch_start, holder'.P) < len
     THEN cpc' = "sst" /\ ret' = "load"
     ELSE cpc' = "stage2" /\ UNCHANGED ret
  /\ UNCHANGED <<pair, loose, configVars, batch_start, stage1_thread_error, workerVars,
                 op, finished, result, ghostVars>>

(***************************************************************************)
(* ~stage1_worker and stop_thread(), lines 23-25 and 46-56.  Without       *)
(* threads the stream has no worker.  The iterator dies with the stream:   *)
(* what it yielded is no longer followed.                                  *)
(***************************************************************************)
Destroy ==
  /\ cpc = "idle"
  /\ cpc' = IF threaded THEN "stop" ELSE "dead"
  /\ stopFrom' = wpc
  /\ proto' = "broken"
  /\ yielded' = <<>>
  /\ result' = NoResult
  /\ observed' = TRUE
  /\ op' = "none"
  /\ UNCHANGED <<pair, loose, configVars, streamVars, workerVars, ret, finished>>

\* stop_thread(), lines 47-51.
StopLock ==
  /\ cpc = "stop"
  /\ wpc # "stage1"
  /\ can_work' = FALSE
  /\ has_work' = FALSE
  /\ cpc' = "stop_notify"
  /\ UNCHANGED <<pair, loose, configVars, streamVars, job, wpc, op, ret, finished,
                 result, ghostVars>>

\* Mutant: stop_thread() without cv.notify_all.
StopNoNotify ==
  /\ cpc = "stop_notify"
  /\ cpc' = "join"
  /\ UNCHANGED <<pair, loose, configVars, streamVars, workerVars, op, ret, finished,
                 result, ghostVars>>

\* stop_thread(), line 52: cv.notify_all.
StopNotify ==
  /\ cpc = "stop_notify"
  /\ wpc' = IF wpc = "wait" THEN "lock" ELSE wpc
  /\ cpc' = "join"
  /\ UNCHANGED <<pair, loose, configVars, streamVars, has_work, can_work, job, op, ret,
                 finished, result, ghostVars>>

\* stop_thread(), lines 53-55: join returns when the thread has exited.
Join ==
  /\ cpc = "join"
  /\ wpc \in {"none", "exited"}
  /\ cpc' = "dead"
  /\ UNCHANGED <<pair, loose, configVars, streamVars, workerVars, op, ret, finished,
                 result, ghostVars>>

(***************************************************************************)
(* The worker thread, lines 28-42.                                         *)
(***************************************************************************)

\* while(can_work), line 29.
WorkerTop ==
  /\ wpc = "top"
  /\ wpc' = IF can_work THEN "lock" ELSE "exited"
  /\ UNCHANGED <<pair, loose, configVars, streamVars, has_work, can_work, job, cpc, op,
                 ret, finished, result, ghostVars>>

(***************************************************************************)
(* Lines 30-34: take the mutex and test the predicate of cv.wait; the      *)
(* worker leaves, starts phase 1 with the mutex held, or releases the      *)
(* mutex and waits.                                                        *)
(***************************************************************************)
WorkerLock ==
  /\ wpc = "lock"
  /\ wpc' = IF ~can_work THEN "exited"
            ELSE IF has_work THEN "stage1" ELSE "wait"
  /\ UNCHANGED <<pair, loose, configVars, streamVars, has_work, can_work, job, cpc, op,
                 ret, finished, result, ghostVars>>

\* Mutant: the worker stores the status of its phase 1 in the stream's error.
WorkerStage1Raises ==
  /\ wpc = "stage1"
  /\ error' = run_stage1(job.off).status
  /\ stage1_thread_error' = error'
  /\ holder' = [holder EXCEPT ![job.parser] = Indexed(@, job.off)]
  /\ has_work' = FALSE
  /\ wpc' = "notify"
  /\ UNCHANGED <<pair, loose, configVars, batch_start, can_work, job, cpc, op,
                 ret, finished, result, ghostVars>>

\* Mutant: the worker does not store the status of its phase 1.
WorkerDropsStatus ==
  /\ wpc = "stage1"
  /\ holder' = [holder EXCEPT ![job.parser] = Indexed(@, job.off)]
  /\ has_work' = FALSE
  /\ wpc' = "notify"
  /\ UNCHANGED <<pair, loose, configVars, error, batch_start, stage1_thread_error,
                 can_work, job, cpc, op, ret, finished, result, ghostVars>>

\* Lines 35-38: phase 1 on the job's parser, then has_work = false, unlock.
WorkerStage1 ==
  /\ wpc = "stage1"
  /\ stage1_thread_error' = run_stage1(job.off).status
  /\ holder' = [holder EXCEPT ![job.parser] = Indexed(@, job.off)]
  /\ has_work' = FALSE
  /\ wpc' = "notify"
  /\ UNCHANGED <<pair, loose, configVars, error, batch_start, can_work, job, cpc, op,
                 ret, finished, result, ghostVars>>

\* Mutant: the worker does not notify after a job.
WorkerNoNotify ==
  /\ wpc = "notify"
  /\ wpc' = "top"
  /\ UNCHANGED <<pair, loose, configVars, streamVars, has_work, can_work, job, cpc, op,
                 ret, finished, result, ghostVars>>

\* Line 39: cv.notify_one wakes the caller when it waits in finish().
WorkerNotify ==
  /\ wpc = "notify"
  /\ wpc' = "top"
  /\ cpc' = IF cpc = "finish_wait" THEN "finish" ELSE cpc
  /\ UNCHANGED <<pair, loose, configVars, streamVars, has_work, can_work, job, op, ret,
                 finished, result, ghostVars>>

\* A condition variable may wake a waiting thread without a notification.
SpuriousWakeup ==
  /\ \/ wpc = "wait" /\ wpc' = "lock" /\ UNCHANGED cpc
     \/ cpc = "finish_wait" /\ cpc' = "finish" /\ UNCHANGED wpc
  /\ UNCHANGED <<pair, loose, configVars, streamVars, has_work, can_work, job, op, ret,
                 finished, result, ghostVars>>

Caller ==
  \/ CallBegin \/ CallAdvance \/ Deref \/ Start \/ EnsureSecondary
  \/ StartStage1Thread \/ Run \/ RunNotify \/ Next1 \/ Loop \/ Stage2
  \/ Finish \/ Swap \/ Destroy \/ StopLock \/ StopNotify \/ Join

Worker == WorkerTop \/ WorkerLock \/ WorkerStage1 \/ WorkerNotify

Next == Caller \/ Worker \/ SpuriousWakeup

Spec == Init /\ [][Next]_vars


(***************************************************************************)
(* Scheduling: the worker thread and a caller inside stop_thread() keep    *)
(* running, and phase 1 returns.  Nothing obliges the caller to make a     *)
(* further call, and a wait on cv need not wake without a notification.    *)
(***************************************************************************)
StopThread == StopLock \/ StopNotify \/ Join

ShutdownInit == Init /\ Len(buf) <= StopLen

ShutdownSpec ==
  ShutdownInit /\ [][Next]_vars /\ WF_vars(Worker) /\ WF_vars(StopThread)

\* The same, for a caller inside finish(): it takes the mutex when it is free.
FinishSpec ==
  ShutdownInit /\ [][Next]_vars /\ WF_vars(Worker) /\ WF_vars(Finish)


(***************************************************************************)
(* Two streams in one process.  Each has its own stage1_worker (has_work,  *)
(* can_work, the job, its thread) and its own caller thread, which submits *)
(* a job (start_stage1_thread), later waits for it                         *)
(* (load_from_stage1_thread) and in the end destroys the stream.  The      *)
(* mutex m and the condition variable cv of lines 15-16 are objects of the *)
(* namespace: all four threads lock the one m and wait on the one cv.      *)
(* pair[i].job counts the jobs given to the worker of stream i.            *)
(***************************************************************************)

\* m is held across steps by a worker inside phase 1 only.
MutexFree == \A j \in Streams : pair[j].wpc # "stage1"

\* The threads blocked in cv.wait: workers (line 31) and callers (line 20).
Waiters ==
  {<<"worker", j>> : j \in {k \in Streams : pair[k].wpc = "wait"}}
    \cup {<<"caller", j>> : j \in {k \in Streams : pair[k].cpc = "finish_wait"}}

\* The threads of W leave cv.wait to take m and test their predicate again.
Woken(W) ==
  [j \in Streams |->
     [pair[j] EXCEPT !.wpc = IF <<"worker", j>> \in W THEN "lock" ELSE @,
                     !.cpc = IF <<"caller", j>> \in W THEN "finish" ELSE @]]

\* cv.notify_one wakes one of the waiting threads, whichever; cv.notify_all
\* wakes them all.
notify_one == IF Waiters = {} THEN {{}} ELSE {{t} : t \in Waiters}
notify_all == Waiters

\* start_stage1_thread(), line 201, and the head of run(), lines 59-61.
PairSubmit(i) ==
  /\ pair[i].cpc = "idle"
  /\ pair[i].job < MaxJobs
  /\ pair' = [pair EXCEPT ![i].stage1_thread_error = "UNINITIALIZED",
                          ![i].wpc = IF @ = "none" THEN "top" ELSE @,
                          ![i].cpc = "run"]
  /\ UNCHANGED <<oneVars, loose>>

\* run(), lines 62-67.
PairRun(i) ==
  /\ pair[i].cpc = "run"
  /\ MutexFree
  /\ pair' = [pair EXCEPT ![i].job = @ + 1,
                          ![i].has_work = TRUE,
                          ![i].cpc = "run_notify"]
  /\ UNCHANGED <<oneVars, loose>>

\* run(), line 68; the caller goes on to load_from_stage1_thread().
PairRunNotify(i) ==
  /\ pair[i].cpc = "run_notify"
  /\ \E W \in notify_one : pair' = [Woken(W) EXCEPT ![i].cpc = "finish"]
  /\ UNCHANGED <<oneVars, loose>>

\* finish(), lines 19-20.
PairFinish(i) ==
  /\ pair[i].cpc = "finish"
  /\ MutexFree
  /\ pair' = [pair EXCEPT ![i].cpc = IF pair[i].has_work THEN "finish_wait"
                                     ELSE "idle"]
  /\ UNCHANGED <<oneVars, loose>>

\* ~stage1_worker, lines 23-25.
PairDestroy(i) ==
  /\ pair[i].cpc = "idle"
  /\ pair' = [pair EXCEPT ![i].cpc = "stop"]
  /\ UNCHANGED <<oneVars, loose>>

\* stop_thread(), lines 47-51.
PairStopLock(i) ==
  /\ pair[i].cpc = "stop"
  /\ MutexFree
  /\ pair' = [pair EXCEPT ![i].can_work = FALSE,
                          ![i].has_work = FALSE,
                          ![i].cpc = "stop_notify"]
  /\ UNCHANGED <<oneVars, loose>>

\* stop_thread(), line 52.
PairStopNotify(i) ==
  /\ pair[i].cpc = "stop_notify"
  /\ pair' = [Woken(notify_all) EXCEPT ![i].cpc = "join"]
  /\ UNCHANGED <<oneVars, loose>>

\* stop_thread(), lines 53-55.
PairJoin(i) ==
  /\ pair[i].cpc = "join"
  /\ pair[i].wpc \in {"none", "exited"}
  /\ pair' = [pair EXCEPT ![i].cpc = "dead"]
  /\ UNCHANGED <<oneVars, loose>>

\* while(can_work), line 29.
PairWorkerTop(i) ==
  /\ pair[i].wpc = "top"
  /\ pair' = [pair EXCEPT ![i].wpc = IF pair[i].can_work THEN "lock"
                                     ELSE "exited"]
  /\ UNCHANGED <<oneVars, loose>>

\* Lines 30-34.
PairWorkerLock(i) ==
  /\ pair[i].wpc = "lock"
  /\ MutexFree
  /\ pair' = [pair EXCEPT ![i].wpc = IF ~pair[i].can_work THEN "exited"
                                     ELSE IF pair[i].has_work THEN "stage1"
                                     ELSE "wait"]
  /\ UNCHANGED <<oneVars, loose>>

\* Lines 35-38; the phase 1 of these streams succeeds.
PairWorkerStage1(i) ==
  /\ pair[i].wpc = "stage1"
  /\ pair' = [pair EXCEPT ![i].stage1_thread_error = "SUCCESS",
                          ![i].has_work = FALSE,
                          ![i].wpc = "notify"]
  /\ UNCHANGED <<oneVars, loose>>

\* Line 39.
PairWorkerNotify(i) ==
  /\ pair[i].wpc = "notify"
  /\ \E W \in notify_one : pair' = [Woken(W) EXCEPT ![i].wpc = "top"]
  /\ UNCHANGED <<oneVars, loose>>

\* A condition variable may wake a waiting thread without a notification.
PairSpuriousWakeup ==
  /\ \E t \in Waiters : pair' = Woken({t})
  /\ UNCHANGED <<oneVars, loose>>

PairOperation(i) ==
  \/ PairRun(i) \/ PairRunNotify(i) \/ PairFinish(i)
  \/ PairStopLock(i) \/ PairStopNotify(i) \/ PairJoin(i)

PairWorker(i) ==
  \/ PairWorkerTop(i) \/ PairWorkerLock(i)
  \/ PairWorkerStage1(i) \/ PairWorkerNotify(i)

PairNext ==
  \/ \E i \in Streams :
       PairSubmit(i) \/ PairDestroy(i) \/ PairOperation(i) \/ PairWorker(i)
  \/ PairSpuriousWakeup

PairInit == Init /\ buf = <<>> /\ batch_size = 1 /\ threaded

(***************************************************************************)
(* Scheduling: every worker and every caller inside run(), finish() or     *)
(* stop_thread() runs again and again, and gets m when it is free again    *)
(* and again.  No caller is obliged to submit a job or to destroy its      *)
(* stream.                                                                 *)
(***************************************************************************)
PairSpec ==
  /\ PairInit
  /\ [][PairNext]_vars
  /\ \A i \in Streams : SF_vars(PairWorker(i)) /\ SF_vars(PairOperation(i))


(***************************************************************************)
(* The stream over a phase 1 of which only the contract is known: a call   *)
(* over n bytes returns a status and leaves a count of bytes consumed in   *)
(* structural_indexes[n_structural_indexes], n in complete mode and no     *)
(* more than n in partial mode; a successful call indexes a document, so   *)
(* in partial mode it consumes a byte at least.  start() and next() are    *)
(* lines 121-164 as before.  The worker's phase 1 is drawn when the job is *)
(* submitted: the caller reads its result only after finish().             *)
(* loose.head is batch_start as it was when the current pass of the loop   *)
(* of next() began (-1: the loop has not begun a pass).                    *)
(***************************************************************************)
Outcomes(n, partial) ==
  {r \in [status : {"SUCCESS", "EMPTY", "CAPACITY"}, consumed : 0..n,
          docs : {0, 1}] :
     /\ r.docs = 1 <=> r.status = "SUCCESS"
     /\ ~partial => r.consumed = n
     /\ (partial /\ r.status = "SUCCESS") => r.consumed >= 1}

\* run_stage1(p, s), lines 170-178.
LooseStage1(s) == Outcomes(Stage1Call(s).n, Stage1Call(s).partial)

\* next_batch_start(), lines 166-168.
LooseNextBatchStart(l) == l.batch_start + l.P.consumed

\* stage2_next: the status, and the index after it.
LooseStage2Next(x) ==
  IF x.docs = 0 THEN [status |-> "EMPTY", index |-> x]
  ELSE [status |-> "SUCCESS", index |-> [x EXCEPT !.docs = @ - 1]]

\* start(), lines 121-142.
LooseStart ==
  /\ loose.pc = "start"
  /\ \E r \in LooseStage1(0) :
       LET l == [loose EXCEPT !.batch_start = 0, !.P = r, !.error = r.status]
       IN  loose' =
             IF r.status # "SUCCESS" THEN [l EXCEPT !.pc = "idle"]
             ELSE IF threaded /\ LooseNextBatchStart(l) < len
             THEN [l EXCEPT !.pc = "submit", !.ret = "start"]
             ELSE [l EXCEPT !.pc = "next"]
  /\ UNCHANGED <<oneVars, pair>>

\* start_stage1_thread(), lines 196-205, and the worker's lines 35-37.
LooseSubmit ==
  /\ loose.pc = "submit"
  /\ \E r \in LooseStage1(LooseNextBatchStart(loose)) :
       loose' = [loose EXCEPT !.S = r,
                              !.stage1_thread_error = r.status,
                              !.pc = IF loose.ret = "start" THEN "next"
                                     ELSE "stage2"]
  /\ UNCHANGED <<oneVars, pair>>

\* operator++ is called, line 111.
LooseAdvance ==
  /\ loose.pc = "idle"
  /\ loose' = [loose EXCEPT !.pc = "next"]
  /\ UNCHANGED <<oneVars, pair>>

\* next(), lines 146-149.
LooseNext1 ==
  /\ loose.pc = "next"
  /\ loose' =
       IF loose.error # "SUCCESS" THEN [loose EXCEPT !.pc = "idle"]
       ELSE LET r == LooseStage2Next(loose.P)
            IN  [loose EXCEPT !.error = r.status, !.P = r.index,
                              !.pc = "loop", !.head = -1]
  /\ UNCHANGED <<oneVars, pair>>

\* next(), lines 151-160: the head of a pass of the loop.
LooseLoop ==
  /\ loose.pc = "loop"
  /\ IF loose.error # "EMPTY"
     THEN loose' = [loose EXCEPT !.pc = "idle"]
     ELSE LET s == LooseNextBatchStart(loose)
              l == [loose EXCEPT !.batch_start = s, !.head = loose.batch_start]
          IN  IF s >= len THEN loose' = [l EXCEPT !.pc = "idle"]
              ELSE IF threaded THEN loose' = [l EXCEPT !.pc = "load"]
              ELSE \E r \in LooseStage1(s) :
                     loose' = [l EXCEPT !.P = r, !.error = r.status,
                                        !.pc = IF r.status # "SUCCESS"
                                               THEN "loop" ELSE "stage2"]
  /\ UNCHANGED <<oneVars, pair>>

\* load_from_stage1_thread(), lines 182-194.
LooseLoad ==
  /\ loose.pc = "load"
  /\ LET l == [loose EXCEPT !.P = loose.S, !.S = loose.P,
                            !.error = loose.stage1_thread_error]
     IN  loose' =
           IF l.error # "SUCCESS" THEN [l EXCEPT !.pc = "loop"]
           ELSE IF LooseNextBatchStart(l) < len
           THEN [l EXCEPT !.pc = "submit", !.ret = "load"]
           ELSE [l EXCEPT !.pc = "stage2"]
  /\ UNCHANGED <<oneVars, pair>>

\* next(), line 162.
LooseStage2 ==
  /\ loose.pc = "stage2"
  /\ LET r == LooseStage2Next(loose.P)
     IN  loose' = [loose EXCEPT !.error = r.status, !.P = r.index,
                               !.pc = "loop"]
  /\ UNCHANGED <<oneVars, pair>>

LooseNext ==
  \/ LooseStart \/ LooseSubmit \/ LooseAdvance \/ LooseNext1
  \/ LooseLoop \/ LooseLoad \/ LooseStage2

\* The bytes do not matter to such a phase 1: the buffers are of white space.
LooseInit == Init /\ \A i \in 1..Len(buf) : buf[i] = "w"

\* The caller inside begin() or operator++ keeps running.
LooseSpec ==
  /\ LooseInit
  /\ [][LooseNext]_vars
  /\ WF_vars(LooseStart \/ LooseSubmit \/ LooseNext1 \/ LooseLoop
               \/ LooseLoad \/ LooseStage2)


(***************************************************************************)
(* The stream built without SIMDJSON_THREADS_ENABLED, as a function of the *)
(* buffer: start() (lines 121-130, 142), next() (lines 145-164 with line   *)
(* 158) and the iteration protocol over them.                              *)
(***************************************************************************)
RECURSIVE SyncLoop(_, _, _)
SyncLoop(e, bs, h) ==
  IF e # "EMPTY" THEN [error |-> e, batch_start |-> bs, parser |-> h]
  ELSE LET s == next_batch_start(bs, h)
       IN  IF s >= len THEN [error |-> e, batch_start |-> s, parser |-> h]
           ELSE IF run_stage1(s).status # "SUCCESS"
           THEN SyncLoop(run_stage1(s).status, s, Indexed(h, s))
           ELSE LET r == stage2_next(Indexed(h, s))
                IN  SyncLoop(r.status, s, r.h)

SyncNext(st) ==
  IF st.error # "SUCCESS" THEN st
  ELSE LET r == stage2_next(st.parser)
       IN  SyncLoop(r.status, st.batch_start, r.h)

SyncStart ==
  LET st == [error |-> run_stage1(0).status, batch_start |-> 0,
             parser |-> Indexed(NoParser, 0)]
  IN  SyncNext(st)

RECURSIVE SyncIterate(_, _)
SyncIterate(st, fin) ==
  IF fin THEN <<>>
  ELSE IF st.error # "SUCCESS" THEN <<Failure(st.error)>>
  ELSE <<Element(st.parser.doc)>>
       \o SyncIterate(SyncNext(st), SyncNext(st).error = "EMPTY")

SyncYield == SyncIterate(SyncStart, SyncStart.error = "EMPTY")

DocStarts == {k \in 0..(len - 1) : ByteAt(k) \in {"s", "t"}}

SetMax(S) == CHOOSE x \in S : \A y \in S : x >= y

LargestDoc ==
  IF DocStarts = {} THEN 0 ELSE SetMax({DocEnd(k) - k : k \in DocStarts})

\* The iteration protocol has run to its end.
IterationOver == cpc = "idle" /\ proto = "end"

(***************************************************************************)
(* C1: for a buffer of several batches whose batch size exceeds every      *)
(* document, the iteration with the worker thread yields the same results  *)
(* in the same order as the iteration without it.                          *)
(***************************************************************************)
PipelineEquivalence ==
  (IterationOver /\ batch_size < len /\ LargestDoc < batch_size)
    => yielded = SyncYield

\* Without threads a finished iteration has yielded what SyncYield computes.
SyncYieldIsUnthreaded == (IterationOver /\ ~threaded) => yielded = SyncYield


(***************************************************************************)
(* C2: the caller thread never touches the secondary holder                *)
(* (ensure_capacity at line 135, std::swap at line 186) while the worker   *)
(* runs phase 1 on it, and the worker's phase 1 is only ever aimed at the  *)
(* secondary holder.                                                       *)
(***************************************************************************)
CallerOnSecondary == cpc \in {"ensure", "swap"}

HoldersNeverShared ==
  /\ ~(wpc = "stage1" /\ CallerOnSecondary)
  /\ (has_work \/ wpc = "stage1") => job.parser = "S"

(***************************************************************************)
(* C3: run() is entered only when the job before it, if any, has been seen *)
(* complete by a finish() that returned: has_work is false and the worker  *)
(* is not inside phase 1.                                                  *)
(***************************************************************************)
OneJobOutstanding ==
  cpc = "run" => (observed /\ ~has_work /\ wpc # "stage1")


(***************************************************************************)
(* C4: whenever the caller is about to run phase 2 (stage2_next at line    *)
(* 149 or 162) the primary holder carries the index of a phase 1 that has  *)
(* completed with success for exactly the batch at batch_start, and the    *)
(* worker is not writing that holder.                                      *)
(***************************************************************************)
AtPhase2 == cpc = "stage2" \/ (cpc = "next" /\ error = "SUCCESS")

Phase2AfterPhase1 ==
  AtPhase2 =>
    /\ holder.P.off = batch_start
    /\ Index(holder.P).status = "SUCCESS"
    /\ ~(wpc = "stage1" /\ job.parser = "P")

\* Phase 2 is about to run on an index the worker thread built.
Phase2OnWorkerIndex ==
  /\ cpc = "stage2"
  /\ threaded
  /\ batch_start > 0
  /\ wpc = "stage1"


(***************************************************************************)
(* C5: a stream whose error is not SUCCESS when a public operation returns *)
(* is frozen.  Every step the caller takes in begin(), operator* or        *)
(* operator++ from then on leaves error, batch_start and both holders as   *)
(* they are, runs no phase, hands no job to the worker, and operator*      *)
(* returns that error.                                                     *)
(***************************************************************************)
FrozenStep ==
  /\ error # "SUCCESS"
  /\ cpc \in {"idle", "start", "next"}
  /\ CallBegin \/ CallAdvance \/ Deref \/ Start \/ Next1

TerminalIsFrozen ==
  [][FrozenStep =>
       /\ error' = error
       /\ batch_start' = batch_start
       /\ holder' = holder
       /\ has_work' = has_work /\ job' = job /\ wpc' = wpc
       /\ cpc' \in {"idle", "start", "next"}
       /\ Deref => result' = Failure(error)]_vars

\* A failed stream was dereferenced again while a job was still running.
FrozenWhileJobRuns ==
  /\ cpc = "idle"
  /\ error = "TAPE_ERROR"
  /\ op = "again"
  /\ result = Failure(error)
  /\ wpc = "stage1"

(***************************************************************************)
(* C6: batches tile the buffer.  When next() moves batch_start (line 152)  *)
(* the primary holder carries the index of the batch at the old            *)
(* batch_start and the new value is the old one plus the bytes phase 1     *)
(* consumed of that batch; the offset given to the worker (line 202) is    *)
(* computed the same way.                                                  *)
(***************************************************************************)
BatchesTile ==
  [][/\ (cpc = "loop" /\ batch_start' # batch_start) =>
          /\ holder.P.off = batch_start
          /\ batch_start' = batch_start + run_stage1(batch_start).consumed
     /\ (cpc = "run" /\ cpc' = "run_notify") =>
          /\ holder.P.off = batch_start
          /\ job'.off = batch_start + run_stage1(batch_start).consumed]_vars

(***************************************************************************)
(* C7: a buffer that fits in one batch and holds k >= 1 documents, all     *)
(* well formed, yields exactly these k documents in buffer order, then the *)
(* iterator equals end(); the worker thread is never started.              *)
(***************************************************************************)
WellFormed == \A k \in 0..(len - 1) : ByteAt(k) \in {"s", "c", "w"}

AllDocuments ==
  [i \in 1..Cardinality(DocStarts) |-> Element(Ascending(DocStarts)[i])]

IsPrefix(a, b) == Len(a) <= Len(b) /\ \A i \in 1..Len(a) : a[i] = b[i]

ErrorEndsIteration ==
  /\ \A i \in 1..Len(yielded) :
       /\ yielded[i].error # "EMPTY"
       /\ yielded[i].error # "SUCCESS" => i = Len(yielded)
  /\ (cpc = "idle" /\ proto = "advance" /\ result.error # "SUCCESS")
       => finished
  /\ proto = "deref" => \A i \in 1..Len(yielded) : yielded[i].error = "SUCCESS"
  /\ (IterationOver /\ error \notin {"SUCCESS", "EMPTY"})
       => (yielded # <<>> /\ yielded[Len(yielded)] = Failure(error))

\* The loop is over after a document and then the worker's phase-1 error.
ErrorYieldedLast ==
  /\ IterationOver
  /\ threaded
  /\ Len(yielded) = 2
  /\ yielded[2] = Failure("UTF8_ERROR")
  /\ stage1_thread_error = "UTF8_ERROR"

(***************************************************************************)
(* C9: operator* changes neither error, batch_start nor a holder, and      *)
(* called again with no begin() or operator++ in between it returns what   *)
(* it returned before.                                                     *)
(***************************************************************************)
DerefIdempotent ==
  [][Deref =>
       /\ error' = error
       /\ batch_start' = batch_start
       /\ holder' = holder
       /\ op \in {"deref", "again"} => result' = result]_vars

\* operator* ran twice on a document while the worker ran phase 1.
DerefTwice ==
  /\ cpc = "idle"
  /\ op = "again"
  /\ result.error = "SUCCESS"
  /\ wpc = "notify"

(***************************************************************************)
(* C10: stop_thread() returns from every state of the worker, and once it  *)
(* has returned the worker thread has exited (or was never started), so no *)
(* phase 1 runs or starts afterwards.                                      *)
(***************************************************************************)
WorkerShutdown ==
  /\ (cpc = "stop") ~> (cpc = "dead")
  /\ [](cpc = "dead" => wpc \in {"none", "exited"})

\* The stream was destroyed while the worker ran phase 1.
StoppedDuringPhase1 == cpc = "dead" /\ stopFrom = "stage1" /\ wpc = "exited"

(***************************************************************************)
(* C11: with a worker that keeps running and a phase 1 that returns, a     *)
(* caller inside finish() leaves it; when finish() has returned has_work   *)
(* is false and the worker is not inside phase 1; and a finish() that      *)
(* finds has_work false (as when no job was ever submitted) returns        *)
(* without waiting.                                                        *)
(***************************************************************************)
FinishReturns ==
  /\ (cpc \in {"finish", "finish_wait"}) ~> (cpc = "swap")
  /\ [](cpc = "swap" => (~has_work /\ wpc # "stage1"))
  /\ [][(cpc = "finish" /\ ~has_work) => cpc' # "finish_wait"]_vars

\* The caller waits in finish() and the worker, done, is about to notify.
FinishWokenByWorker ==
  /\ cpc = "finish_wait"
  /\ wpc = "notify"
  /\ ~has_work
  /\ ~observed

(***************************************************************************)
(* C12: run_stage1 called with an offset s hands phase 1 the bytes from s  *)
(* on; when len - s <= batch_size it asks for the len - s remaining bytes  *)
(* in complete mode, otherwise for batch_size bytes in partial mode.  A    *)
(* remainder of exactly batch_size bytes is a final batch.  This is so for *)
(* the call start() is about to make, for the call the worker is in and    *)
(* without threads for the call that built the index of the parser.       *)
(***************************************************************************)
ModeAt(s) ==
  LET call == Stage1Call(s)
  IN  /\ call.off = s
      /\ (len - s <= batch_size) => (call.n = len - s /\ ~call.partial)
      /\ (len - s > batch_size) => (call.n = batch_size /\ call.partial)

ModeFromRemaining ==
  /\ cpc = "start" => ModeAt(0)
  /\ wpc = "stage1" => ModeAt(job.off)
  /\ (~threaded /\ holder.P.off >= 0) => ModeAt(holder.P.off)

\* The worker runs phase 1 on a last batch of exactly batch_size bytes.
WorkerOnBoundaryBatch ==
  /\ wpc = "stage1"
  /\ job.off > 0
  /\ len - job.off = batch_size
  /\ ~Stage1Call(job.off).partial

(***************************************************************************)
(* C13: no step of the stream lowers batch_start, and a step that changes  *)
(* it is taken when phase 2 has exhausted the index of the primary holder. *)
(***************************************************************************)
IndexExhausted(h) == h.nxt >= Len(Index(h).docs)

BatchStartMonotone ==
  [][/\ batch_start' >= batch_start
     /\ batch_start' # batch_start => IndexExhausted(holder.P)]_vars

(***************************************************************************)
(* C14: a failure of the worker's phase 1 is deferred.  The worker's step  *)
(* leaves the stream's error alone; the failure becomes the stream's error *)
(* in load_from_stage1_thread, entered when phase 2 has exhausted the      *)
(* primary holder's index, and it is exactly stage1_thread_error; under    *)
(* the iteration protocol every document of that index has been yielded    *)
(* by then; no job is submitted by that load nor while the error stands.   *)
(***************************************************************************)
Failed(e) == e \notin {"SUCCESS", "EMPTY"}

\* The last results yielded are the documents of the index of holder h.
YieldedBatch(h) ==
  LET docs == Index(h).docs
      n    == Len(yielded) - Len(docs)
  IN  /\ n >= 0
      /\ \A i \in 1..Len(docs) : yielded[n + i] = Element(docs[i])

WorkerFailureDeferred ==
  [][/\ WorkerStage1 => (error' = error /\ result' = result)
     /\ (Swap /\ Failed(stage1_thread_error)) =>
          /\ error = "EMPTY"
          /\ IndexExhausted(holder.P)
          /\ proto # "broken" => (op = "advance" /\ YieldedBatch(holder.P))
          /\ error' = stage1_thread_error
          /\ cpc' = "loop"
     /\ Failed(error) => (has_work' => has_work)]_vars

\* Two documents were yielded, then the load brought in the worker's failure.
WorkerFailureLoaded ==
  /\ cpc = "loop"
  /\ threaded
  /\ proto = "advance"
  /\ Len(yielded) = 2
  /\ error = "CAPACITY"
  /\ stage1_thread_error = "CAPACITY"
  /\ batch_start > 0

(***************************************************************************)
(* C15: the placeholder UNINITIALIZED is never seen.  When finish() has    *)
(* returned in load_from_stage1_thread, stage1_thread_error is not the     *)
(* placeholder; the stream's error never is; and no operator* returns it.  *)
(***************************************************************************)
PlaceholderNeverRead ==
  /\ cpc = "swap" => stage1_thread_error # "UNINITIALIZED"
  /\ error # "UNINITIALIZED"
  /\ result.error # "UNINITIALIZED"
  /\ \A i \in 1..Len(yielded) : yielded[i].error # "UNINITIALIZED"

\* finish() returned before the worker's notification of the job it waited for.
LoadAfterWorkerWrote ==
  /\ cpc = "swap"
  /\ wpc = "notify"
  /\ stage1_thread_error = "SUCCESS"
  /\ holder.S.off = batch_start
  /\ proto = "advance"

(***************************************************************************)
(* C16: every step that reads or writes the job (owner,                    *)
(* _next_batch_start, stage1_thread_parser), has_work or can_work runs     *)
(* with the mutex m held, and the caller reads stage1_thread_error (line   *)
(* 187) when no job is pending and the worker is outside phase 1.          *)
(***************************************************************************)
\* The steps between a unique_lock on m and its release: lines 19-20,
\* 30-38, 47-51 and 62-67.
UnderMutex == Finish \/ WorkerLock \/ WorkerStage1 \/ StopLock \/ Run

\* The steps that read can_work (lines 29, 31, 32), has_work (lines 20, 31)
\* or the job (lines 35-36), and the steps that write one of them.
TouchesShared ==
  \/ WorkerTop \/ WorkerLock
  \/ Finish
  \/ WorkerStage1
  \/ has_work' # has_work \/ can_work' # can_work \/ job' # job

SharedUnderMutex ==
  [][/\ TouchesShared => UnderMutex
     /\ Swap => (~has_work /\ wpc # "stage1")]_vars

(***************************************************************************)
(* C17: load_from_stage1_thread waits for a job that exists.  While the    *)
(* caller is in finish() the last job given to run() is for the batch at   *)
(* batch_start and no finish() has returned for it yet; when finish() has  *)
(* returned, the secondary holder carries the index of that batch, so the  *)
(* swap brings in a result for the first time.                             *)
(***************************************************************************)
WaitsForSubmittedJob ==
  /\ cpc \in {"finish", "finish_wait"} =>
       (~observed /\ job.off = batch_start)
  /\ cpc = "swap" => (job.off = batch_start /\ holder.S.off = batch_start)

(***************************************************************************)
(* C18: two streams do not interfere.  The notify_one of run() of a stream *)
(* wakes the worker of that stream when it waits, and the notify_one of a  *)
(* worker wakes the caller of its stream when it waits in finish(): no     *)
(* thread of the other stream takes the wakeup in its place.               *)
(***************************************************************************)
NoCrossTalk ==
  [][\A i \in Streams :
       /\ (PairRunNotify(i) /\ pair[i].wpc = "wait")
            => pair'[i].wpc = "lock"
       /\ (PairWorkerNotify(i) /\ pair[i].cpc = "finish_wait")
            => pair'[i].cpc = "finish"]_vars

(***************************************************************************)
(* C19: phase 1 is never offered bytes outside the buffer.  Every offset s *)
(* run_stage1 was or is about to be called with, on either thread, has     *)
(* 0 <= s <= len, so len - s does not wrap, and the bytes offered end at   *)
(* or before len; but for the first call, of start(), at least one byte    *)
(* remains at s.                                                           *)
(***************************************************************************)
InsideBuffer(s) ==
  LET call == Stage1Call(s)
  IN  /\ 0 <= s /\ s <= len
      /\ call.off + call.n <= len
      /\ s > 0 => s < len

\* The call start() is about to make, the call the worker is in or will
\* make for the job that waits and, without threads, the call that built
\* the index of the parser.
Phase1InsideBuffer ==
  /\ cpc = "start" => InsideBuffer(0)
  /\ (wpc = "stage1" \/ has_work) => InsideBuffer(job.off)
  /\ (~threaded /\ holder.P.off >= 0) => InsideBuffer(holder.P.off)

\* The worker runs phase 1 on the last byte while batch_start is behind it.
WorkerOnLastByte ==
  /\ wpc = "stage1"
  /\ job.off = len - 1
  /\ batch_start < job.off
  /\ batch_size = 2
  /\ holder.S.off >= 0

(***************************************************************************)
(* C20: next() returns after finitely many batch loads, whatever phase 1   *)
(* reports within its contract.  A pass of the loop of next() that does    *)
(* not leave the loop has increased batch_start: when control is back at   *)
(* the test of the loop with error EMPTY, batch_start is larger than it    *)
(* was when the pass began.                                                *)
(***************************************************************************)
LoopProgress ==
  (loose.pc = "loop" /\ loose.error = "EMPTY" /\ loose.head >= 0)
    => loose.batch_start > loose.head

====
